---- MODULE Spec2Model ----
(***************************************************************************)
(* The mock trading ledger of trading-view-mcp                             *)
(* (src/services/tradingService.js) and its two callers                    *)
(* (src/routes/trading.js, src/utils/mcpIntegration.js) as a state machine. *)
(*                                                                         *)
(* JavaScript values are modelled as records [k, n, d]:                    *)
(*   k = "undef"  the value undefined (a missing field)                    *)
(*   k = "num"    the number n/d; d = 0 encodes the non-finite numbers:    *)
(*                n = 1 Infinity, n = -1 -Infinity, n = 0 NaN              *)
(*   k = "str"    a numeric string whose numeric value is n/d ("100")      *)
(* Numbers are exact rationals: the rounding of IEEE doubles is not        *)
(* modelled. Order quantities and order prices are drawn from integers.    *)
(***************************************************************************)
EXTENDS Integers, Sequences, FiniteSets, TLC

VARIABLES cash, positions, transactions, refreshes, lastResult, performance,
          stockData, analysis, indicatorInput, indicatorValues,
          batch, requested, analysisPromises, completionOrder, results

\* the ledger of tradingService.js, the outcome of the last call and the
\* report analyzePerformance returned last
ledgerVars == <<cash, positions, transactions, refreshes, lastResult, performance>>

\* the argument and the return value of analyzeStockPerformance, and the
\* arguments and the return value of one indicator calculator
analyticsVars == <<stockData, analysis, indicatorInput, indicatorValues>>

\* one call of batchAnalyzeStocks
batchVars == <<batch, requested, analysisPromises, completionOrder, results>>

vars == <<ledgerVars, analyticsVars, batchVars>>

(***************************************************************************)
(* Bounds of the model.                                                    *)
(***************************************************************************)
\* calls are issued while the transaction log is shorter than MaxLog
MaxLog == 2

\* updatePortfolio is called at most MaxRefresh times between two resets
MaxRefresh == 1

(***************************************************************************)
(* Program constants.                                                      *)
(***************************************************************************)
InitialCash == 100000

(***************************************************************************)
(* JavaScript values.                                                      *)
(***************************************************************************)
Undefined == "undefined"

UndefV == [k |-> "undef", n |-> 0, d |-> 0]

Abs(x) == IF x < 0 THEN -x ELSE x

Sign(x) == IF x < 0 THEN -1 ELSE IF x > 0 THEN 1 ELSE 0

RECURSIVE GCD(_, _)
GCD(a, b) == IF b = 0 THEN a ELSE GCD(b, a % b)

\* the number n/d in lowest terms with d >= 0 (d = 0: Infinity, -Infinity, NaN)
Rat(n, d) ==
  IF d = 0 THEN [k |-> "num", n |-> Sign(n), d |-> 0]
  ELSE LET g == GCD(Abs(n), Abs(d))
           s == Sign(d)
       IN [k |-> "num", n |-> (s * n) \div g, d |-> (s * d) \div g]

NumV(i) == [k |-> "num", n |-> i, d |-> 1]

StrV(i) == [k |-> "str", n |-> i, d |-> 1]

NaNV == [k |-> "num", n |-> 0, d |-> 0]

\* ToNumber: undefined -> NaN, a numeric string -> its value
ToNumber(v) == IF v.k = "undef" THEN NaNV ELSE [k |-> "num", n |-> v.n, d |-> v.d]

IsNaN(v) == ToNumber(v).n = 0 /\ ToNumber(v).d = 0

\* !v : undefined, 0 and NaN are falsy; every modelled string is non-empty
Falsy(v) == v.k = "undef" \/ (v.k = "num" /\ v.n = 0)

\* a * b, a + b, a / b on numbers (operands coerced with ToNumber)
Mul(a, b) == Rat(ToNumber(a).n * ToNumber(b).n, ToNumber(a).d * ToNumber(b).d)

Add(a, b) ==
  LET x == ToNumber(a)
      y == ToNumber(b)
  IN IF x.d = 0 /\ y.d = 0
       THEN (IF x.n = y.n THEN x ELSE NaNV)
       ELSE Rat(x.n * y.d + y.n * x.d, x.d * y.d)

Div(a, b) ==
  LET x == ToNumber(a)
      y == ToNumber(b)
  IN IF IsNaN(x) \/ IsNaN(y) THEN NaNV
     ELSE Rat(x.n * y.d * (IF y.n < 0 THEN -1 ELSE 1), x.d * Abs(y.n))

\* a < b : false as soon as one side is NaN (or undefined)
Lt(a, b) ==
  LET x == ToNumber(a)
      y == ToNumber(b)
  IN /\ ~IsNaN(x)
     /\ ~IsNaN(y)
     /\ IF x.d = 0 \/ y.d = 0
          THEN (IF x.d = 0 /\ y.d = 0 THEN x.n < y.n
                ELSE IF x.d = 0 THEN x.n < 0 ELSE y.n > 0)
          ELSE x.n * y.d < y.n * x.d

Gt(a, b) == Lt(b, a)

Le(a, b) == ~IsNaN(a) /\ ~IsNaN(b) /\ ~Lt(b, a)

(***************************************************************************)
(* Inputs. An order is the object handed to an entry point; a field that   *)
(* is absent is Undefined (strings) or UndefV (numbers).                   *)
(***************************************************************************)
Symbols == {"AAPL", "MSFT"}

SymbolInputs == Symbols \cup {Undefined}

TypeInputs == {"market", "limit", "stop", Undefined}

ActionInputs == {"buy", "sell", "hold", Undefined}

QuantityInputs == {UndefV, NumV(-1), NumV(0), NumV(1), NumV(2), NumV(1000)}

PriceInputs == {UndefV, NumV(-60000), NumV(0), NumV(100), NumV(60000), StrV(100)}

AllOrders ==
  [symbol : SymbolInputs, type : TypeInputs, action : ActionInputs,
   quantity : QuantityInputs, price : PriceInputs]

Order(symbol, type, action, quantity, price) ==
  [symbol |-> symbol, type |-> type, action |-> action, quantity |-> quantity,
   price |-> price]

\* market orders without a price, as the README's trade_execution example
PlainOrders ==
  {Order(s, "market", a, q, UndefV) :
     s \in Symbols, a \in {"buy", "sell"}, q \in {NumV(1), NumV(2)}}

\* AAPL orders that carry a price, of either type
PricedOrders ==
  {Order("AAPL", t, a, q, p) :
     t \in {"market", "limit"}, a \in {"buy", "sell"}, q \in {NumV(1)},
     p \in PriceInputs \ {UndefV}}

\* a plain AAPL order with one field missing or out of range
BrokenOrders ==
  {Order(Undefined, "market", "buy", NumV(1), UndefV)}
    \cup {Order("AAPL", t, "buy", NumV(1), UndefV) : t \in {"stop", "limit", Undefined}}
    \cup {Order("AAPL", "market", a, NumV(1), UndefV) : a \in {"hold", Undefined}}
    \cup {Order("AAPL", "market", a, q, UndefV) :
            a \in {"buy", "sell"}, q \in {UndefV, NumV(0), NumV(-1)}}

\* a limit order for more than the cash can pay at any current price
LargeOrders == {Order("AAPL", "limit", "buy", NumV(1000), p) : p \in {NumV(0), NumV(60000)}}

\* the README's market buy of 10 MSFT, and buys of 10 AAPL at 100 and at 200
ScenarioOrders ==
  {Order("MSFT", "market", "buy", NumV(10), UndefV)}
    \cup {Order("AAPL", "market", "buy", NumV(10), p) : p \in {NumV(100), NumV(200)}}

\* The orders the entry points are called with.
Orders ==
  PlainOrders \cup PricedOrders \cup BrokenOrders \cup LargeOrders \cup ScenarioOrders

\* The orders the order contract allows: valid action and type, quantity > 0,
\* and a positive price on limit orders (a market order may carry any price).
OrderAllowed(o) ==
  /\ o.symbol # Undefined
  /\ o.type \in {"market", "limit"}
  /\ o.action \in {"buy", "sell"}
  /\ Gt(o.quantity, NumV(0))
  /\ o.type = "limit" => Gt(o.price, NumV(0))

AllowedOrders == {o \in Orders : OrderAllowed(o)}

\* the values 100 + Math.random() * 50 can take, sampled (tradingService.js:56)
RandomPrices == {100, 149}

\* Math.random() is evaluated only when price is falsy (price || ...)
RandomDraws(o) == IF Falsy(o.price) THEN RandomPrices ELSE {100}

\* the values Math.random() * 0.04 - 0.02 can take, sampled, in 1/10000
DriftsBp == {-200, 100}

\* milliseconds elapsed between two readings of Date.now(), sampled
Elapsed == {0, 1}

\* Date.now(), counted from the reading that stamped the first logged transaction
DateNow(txs, elapsed) == IF txs = <<>> THEN 0 ELSE txs[Len(txs)].id + elapsed

(***************************************************************************)
(* mockPortfolio and getPortfolio.                                         *)
(***************************************************************************)
Portfolio == [cash |-> cash, positions |-> positions, transactions |-> transactions]

RECURSIVE PositionsValue(_)
PositionsValue(ps) ==
  IF ps = <<>> THEN NumV(0)
  ELSE Add(PositionsValue(SubSeq(ps, 1, Len(ps) - 1)),
           Mul(NumV(ps[Len(ps)].quantity), ps[Len(ps)].currentPrice))

getPortfolio(pf) ==
  [cash |-> pf.cash, positions |-> pf.positions, transactions |-> pf.transactions,
   totalValue |-> Add(NumV(pf.cash), PositionsValue(pf.positions))]

(***************************************************************************)
(* executeOrder, stage by stage.                                           *)
(***************************************************************************)
\* positions.find(p => p.symbol === symbol): the first index, 0 when none
FindPosition(ps, symbol) ==
  IF \E i \in 1..Len(ps) : ps[i].symbol = symbol
    THEN CHOOSE i \in 1..Len(ps) :
           /\ ps[i].symbol = symbol
           /\ \A j \in 1..(i - 1) : ps[j].symbol # symbol
    ELSE 0

MissingParams(o) ==
  o.symbol = Undefined \/ o.type = Undefined \/ Falsy(o.quantity) \/ o.action = Undefined

InvalidType(o) == o.type \notin {"market", "limit"}

InvalidAction(o) == o.action \notin {"buy", "sell"}

\* variant: the current price is always drawn, whatever the order's price
CurrentPrice_AlwaysDrawn(o, rnd) == NumV(rnd)

\* const currentPrice = price || (100 + Math.random() * 50)
CurrentPrice(o, rnd) == IF Falsy(o.price) THEN NumV(rnd) ELSE o.price

LimitPending(o, cp) ==
  /\ o.type = "limit"
  /\ \/ o.action = "buy" /\ Gt(cp, o.price)
     \/ o.action = "sell" /\ Lt(cp, o.price)

\* const orderValue = quantity * currentPrice (integer operands in this model)
\* variant: the value of an order is its price, whatever the quantity
OrderValue_PriceOnly(o, cp) == ToNumber(cp).n

OrderValue(o, cp) == o.quantity.n * ToNumber(cp).n

\* variant: only a missing position is refused, the held quantity is not compared
SellRejected_HeldUnchecked(pf, o) ==
  /\ o.action = "sell"
  /\ FindPosition(pf.positions, o.symbol) = 0

SellRejected(pf, o) ==
  /\ o.action = "sell"
  /\ LET i == FindPosition(pf.positions, o.symbol)
     IN i = 0 \/ pf.positions[i].quantity < o.quantity.n

BuyRejected(pf, o, value) == o.action = "buy" /\ value > pf.cash

Transaction(o, cp, value, clock) ==
  [id |-> clock, symbol |-> o.symbol, action |-> o.action,
   quantity |-> o.quantity.n, price |-> cp, value |-> value, timestamp |-> clock]

\* variant: every buy pushes a new position
ApplyBuy_AlwaysPush(ps, o, cp, value) ==
  Append(ps, [symbol |-> o.symbol, quantity |-> o.quantity.n,
              costBasis |-> cp, currentPrice |-> cp])

\* variant: the cost basis of a held position becomes the latest price
ApplyBuy_LastPrice(ps, o, cp, value) ==
  LET i == FindPosition(ps, o.symbol)
  IN IF i # 0
       THEN [ps EXCEPT ![i] = [symbol |-> o.symbol,
                               quantity |-> ps[i].quantity + o.quantity.n,
                               costBasis |-> cp, currentPrice |-> cp]]
       ELSE Append(ps, [symbol |-> o.symbol, quantity |-> o.quantity.n,
                        costBasis |-> cp, currentPrice |-> cp])

ApplyBuy(ps, o, cp, value) ==
  LET i == FindPosition(ps, o.symbol)
  IN IF i # 0
       THEN LET newQuantity == ps[i].quantity + o.quantity.n
                newCostBasis ==
                  Div(Add(Mul(ps[i].costBasis, NumV(ps[i].quantity)), NumV(value)),
                      NumV(newQuantity))
            IN [ps EXCEPT ![i] = [symbol |-> o.symbol, quantity |-> newQuantity,
                                  costBasis |-> newCostBasis, currentPrice |-> cp]]
       ELSE Append(ps, [symbol |-> o.symbol, quantity |-> o.quantity.n,
                        costBasis |-> cp, currentPrice |-> cp])

KeepOthers(ps, symbol) ==
  LET Other(p) == p.symbol # symbol IN SelectSeq(ps, Other)

\* variant: a position sold down to nothing stays in the list
ApplySell_KeepsEmpty(ps, o) ==
  LET i == FindPosition(ps, o.symbol)
  IN [ps EXCEPT ![i].quantity = @ - o.quantity.n]

ApplySell(ps, o) ==
  LET i == FindPosition(ps, o.symbol)
      left == ps[i].quantity - o.quantity.n
  IN IF left = 0
       THEN KeepOthers(ps, o.symbol)
       ELSE [ps EXCEPT ![i].quantity = left]

\* currentPrice.toFixed(2) throws a TypeError unless currentPrice is a number
ToFixedThrows(cp) == cp.k # "num"

\* what a call hands back: the status and the kind of its message (for the
\* trade_execution handler, those of the result it wraps in data), with the
\* portfolio the call leaves behind
Result(status, message, pf) == [status |-> status, message |-> message, pf |-> pf]

\* variant: the waiting order is kept in the log
OnPending_Queued(pf, o) ==
  Result("pending", "waiting for price",
         [pf EXCEPT !.transactions =
            Append(@, Transaction(o, o.price, 0, DateNow(pf.transactions, 0)))])

OnPending(pf, o) == Result("pending", "waiting for price", pf)

\* variant: the cash is written from a balance read before an earlier call
Applied_StaleCash(pf, o, cp, value, clock) ==
  [cash |-> IF o.action = "buy" THEN InitialCash - value ELSE InitialCash + value,
   positions |-> IF o.action = "buy" THEN ApplyBuy(pf.positions, o, cp, value)
                 ELSE ApplySell(pf.positions, o),
   transactions |-> Append(pf.transactions, Transaction(o, cp, value, clock))]

Applied(pf, o, cp, value, clock) ==
  [cash |-> IF o.action = "buy" THEN pf.cash - value ELSE pf.cash + value,
   positions |-> IF o.action = "buy" THEN ApplyBuy(pf.positions, o, cp, value)
                 ELSE ApplySell(pf.positions, o),
   transactions |-> Append(pf.transactions, Transaction(o, cp, value, clock))]

executeOrder(pf, o, rnd, clock) ==
  IF MissingParams(o) THEN Result("error", "Missing required order parameters", pf)
  ELSE IF InvalidType(o) THEN Result("error", "Invalid order type", pf)
  ELSE IF InvalidAction(o) THEN Result("error", "Invalid order action", pf)
  ELSE LET cp == CurrentPrice(o, rnd)
           value == OrderValue(o, cp)
       IN IF LimitPending(o, cp)
            THEN (IF ToFixedThrows(cp)
                    THEN Result("error", "toFixed is not a function", pf)
                    ELSE OnPending(pf, o))
          ELSE IF SellRejected(pf, o) THEN Result("error", "Cannot sell", pf)
          ELSE IF BuyRejected(pf, o, value) THEN Result("error", "Insufficient funds", pf)
          ELSE IF ToFixedThrows(cp)
            THEN Result("error", "toFixed is not a function",
                        Applied(pf, o, cp, value, clock))
          ELSE Result("executed", "Successfully", Applied(pf, o, cp, value, clock))

(***************************************************************************)
(* The callers of executeOrder: POST /api/trading/order and the            *)
(* trade_execution request handler. Both validate, then call executeOrder.  *)
(***************************************************************************)
Paths == {"direct", "http", "mcp"}

\* parseInt(quantity, 10) of a number: its integer part
ParseInt(v) ==
  IF v.k = "undef" \/ v.d = 0 THEN NaNV
  ELSE NumV(Sign(v.n) * (Abs(v.n) \div v.d))

\* parseFloat(price): the numeric value of a number or numeric string
ParseFloat(v) == ToNumber(v)

\* isNaN(v) || v <= 0
NotPositive(v) == IsNaN(v) \/ Le(v, NumV(0))

routeOrder(pf, o, rnd, clock) ==
  IF o.symbol = Undefined \/ o.action = Undefined \/ Falsy(o.quantity) \/ o.type = Undefined
    THEN Result("error", "Missing required fields", pf)
  ELSE IF InvalidAction(o) THEN Result("error", "Invalid action", pf)
  ELSE IF InvalidType(o) THEN Result("error", "Invalid order type", pf)
  ELSE IF NotPositive(o.quantity) THEN Result("error", "Invalid quantity", pf)
  ELSE IF o.type = "limit" /\ (Falsy(o.price) \/ NotPositive(o.price))
    THEN Result("error", "Invalid price for limit order", pf)
  ELSE executeOrder(pf, o, rnd, clock)

handleTradeExecution(pf, p, rnd, clock) ==
  LET type == IF p.type = Undefined THEN "market" ELSE p.type
      q == [p EXCEPT !.type = type]
  IN IF p.symbol = Undefined \/ p.action = Undefined \/ Falsy(p.quantity)
       THEN Result("error", "Missing required fields", pf)
     ELSE IF InvalidAction(q) THEN Result("error", "Invalid action", pf)
     ELSE IF InvalidType(q) THEN Result("error", "Invalid order type", pf)
     ELSE IF NotPositive(p.quantity) THEN Result("error", "Invalid quantity", pf)
     ELSE IF type = "limit" /\ (Falsy(p.price) \/ NotPositive(p.price))
       THEN Result("error", "Invalid price for limit order", pf)
     ELSE executeOrder(pf,
                       [symbol |-> p.symbol, action |-> p.action,
                        quantity |-> ParseInt(p.quantity), type |-> type,
                        price |-> IF Falsy(p.price) THEN UndefV ELSE ParseFloat(p.price)],
                       rnd, clock)

Enter(path, pf, o, rnd, clock) ==
  IF path = "direct" THEN executeOrder(pf, o, rnd, clock)
  ELSE IF path = "http" THEN routeOrder(pf, o, rnd, clock)
  ELSE handleTradeExecution(pf, o, rnd, clock)

(***************************************************************************)
(* updatePortfolio and resetPortfolio.                                     *)
(***************************************************************************)
RECURSIVE Pow10(_)
Pow10(e) == IF e = 0 THEN 1 ELSE 10 * Pow10(e - 1)

\* the number of digits of the integer part of a number >= 0, as String prints it
RECURSIVE IntDigits(_)
IntDigits(i) == IF i < 10 THEN 1 ELSE 1 + IntDigits(i \div 10)

\* position.currentPrice += priceChange: numeric addition, but string
\* concatenation when currentPrice is a string ("100" + 1 is "1001"; "100" + -2
\* is "100-2", which is not a number)
PlusAssign(price, change) ==
  IF price.k = "num" THEN Add(price, change)
  ELSE IF price.d # 1 \/ price.n < 0 \/ change.d = 0 \/ change.n < 0
    THEN [k |-> "str", n |-> 0, d |-> 0]
  ELSE LET shifted == NumV(price.n * Pow10(IntDigits(change.n \div change.d)))
           joined == Add(shifted, change)
       IN [k |-> "str", n |-> joined.n, d |-> joined.d]

\* priceChange = currentPrice * (Math.random() * 0.04 - 0.02)
\* variant: the refresh marks the cost basis to the new price as well
Drifted_CostToo(p, bp) ==
  LET q == PlusAssign(p.currentPrice, Mul(p.currentPrice, Rat(bp, 10000)))
  IN [p EXCEPT !.currentPrice = q, !.costBasis = q]

Drifted(p, bp) ==
  [p EXCEPT !.currentPrice = PlusAssign(p.currentPrice, Mul(p.currentPrice, Rat(bp, 10000)))]

updatePortfolio(pf, drift) ==
  [pf EXCEPT !.positions = [i \in 1..Len(pf.positions) |-> Drifted(pf.positions[i], drift[i])]]

\* variant: the log survives the reset
resetPortfolio_KeepsLog ==
  [cash |-> InitialCash, positions |-> <<>>, transactions |-> transactions]

resetPortfolio == [cash |-> InitialCash, positions |-> <<>>, transactions |-> <<>>]

(***************************************************************************)
(* The state machine.                                                      *)
(***************************************************************************)
Outcome(op, status, message) == [op |-> op, status |-> status, message |-> message]

\* no stock data has been handed to the analytics yet
NoStockData == [symbol |-> "none", given |-> FALSE, prices |-> <<>>]

\* analyzeStockPerformance has not returned yet
NotAnalyzed == [status |-> "none"]

\* no indicator calculator has returned yet
NotCalculated == [name |-> "none", values |-> <<>>]

InitIndicators ==
  /\ indicatorInput = [prices |-> <<>>, period |-> 1]
  /\ indicatorValues = NotCalculated

\* analyzePerformance has not returned a report yet
NoReport == [period |-> "none"]

InitLedger ==
  /\ cash = InitialCash
  /\ positions = <<>>
  /\ transactions = <<>>
  /\ refreshes = 0
  /\ lastResult = Outcome("start", "none", "none")
  /\ performance = NoReport

InitBatch ==
  /\ batch = "idle"
  /\ requested = <<>>
  /\ analysisPromises = <<>>
  /\ completionOrder = <<>>
  /\ results = <<>>

Init ==
  /\ InitLedger
  /\ stockData = NoStockData
  /\ analysis = NotAnalyzed
  /\ InitIndicators
  /\ InitBatch

Install(pf) ==
  /\ cash' = pf.cash
  /\ positions' = pf.positions
  /\ transactions' = pf.transactions

Call(path, orders) ==
  /\ Len(transactions) < MaxLog
  /\ \E o \in orders :
       \E rnd \in RandomDraws(o), elapsed \in Elapsed :
         \E res \in {Enter(path, Portfolio, o, rnd, DateNow(transactions, elapsed))} :
           /\ Install(res.pf)
           /\ lastResult' = Outcome("executeOrder", res.status, res.message)
  /\ UNCHANGED <<refreshes, performance, analyticsVars, batchVars>>

ExecuteOrder == Call("direct", Orders)

PostOrder == Call("http", Orders)

TradeExecution == Call("mcp", Orders)

UpdatePortfolio ==
  /\ refreshes < MaxRefresh
  /\ \E drift \in [1..Len(positions) -> DriftsBp] :
       Install(updatePortfolio(Portfolio, drift))
  /\ refreshes' = refreshes + 1
  /\ lastResult' = Outcome("updatePortfolio", "success", "none")
  /\ UNCHANGED <<performance, analyticsVars, batchVars>>

GetPortfolio ==
  /\ lastResult' = Outcome("getPortfolio", "success", "none")
  /\ UNCHANGED <<cash, positions, transactions, refreshes, performance, analyticsVars, batchVars>>

\* analyzePerformance reads getPortfolio() and builds its report from the
\* total value; it writes nothing to mockPortfolio. The report itself is
\* worked out by ReportPerformance below.
AnalyzePerformance ==
  /\ lastResult' = Outcome("analyzePerformance", "success", "none")
  /\ UNCHANGED <<cash, positions, transactions, refreshes, performance, analyticsVars, batchVars>>

ResetPortfolio ==
  /\ Install(resetPortfolio)
  /\ refreshes' = 0
  /\ lastResult' = Outcome("resetPortfolio", "success", "none")
  /\ UNCHANGED <<performance, analyticsVars, batchVars>>

Next ==
  \/ ExecuteOrder
  \/ PostOrder
  \/ TradeExecution
  \/ UpdatePortfolio
  \/ GetPortfolio
  \/ AnalyzePerformance
  \/ ResetPortfolio

Spec == Init /\ [][Next]_vars

(***************************************************************************)
(* The same machine when every caller keeps to the order contract.         *)
(***************************************************************************)
ExecuteAllowedOrder == Call("direct", AllowedOrders)

PostAllowedOrder == Call("http", AllowedOrders)

TradeAllowedExecution == Call("mcp", AllowedOrders)

NextAllowed ==
  \/ ExecuteAllowedOrder
  \/ PostAllowedOrder
  \/ TradeAllowedExecution
  \/ UpdatePortfolio
  \/ GetPortfolio
  \/ AnalyzePerformance
  \/ ResetPortfolio

SpecAllowed == Init /\ [][NextAllowed]_vars

(***************************************************************************)
(* The indicator arithmetic of the stock analytics                          *)
(* (calculateSMA, calculateEMA, calculateRSI). A price is a whole number of *)
(* ticks, TicksPerUnit ticks to the currency unit. An indicator value is an *)
(* exact fraction [n, d] of ticks whose numerator and denominator are       *)
(* naturals of any size, written as sequences of digits in base Base, least *)
(* significant first and with no leading zero (<<>> is 0): the recurrences  *)
(* of the EMA and of the RSI divide by period + 1 and by period at every    *)
(* step.                                                                    *)
(***************************************************************************)
TicksPerUnit == 1000000

Base == 10000

\* Then computes x before it goes on with F(x)
Then(x, F(_)) == CHOOSE r \in {F(v) : v \in {x}} : TRUE

RECURSIVE BigOf(_)
BigOf(i) == IF i = 0 THEN <<>> ELSE <<i % Base>> \o BigOf(i \div Base)

Digit(a, i) == IF i <= Len(a) THEN a[i] ELSE 0

\* the digits from..to of a + b and the carry out of them, for a carry c in
RECURSIVE AddRange(_, _, _, _, _)
AddRange(a, b, from, to, c) ==
  IF from = to
    THEN [d |-> <<(Digit(a, from) + Digit(b, from) + c) % Base>>,
          c |-> (Digit(a, from) + Digit(b, from) + c) \div Base]
  ELSE LET mid == (from + to) \div 2
       IN Then(AddRange(a, b, from, mid, c),
               LAMBDA lo :
                 Then(AddRange(a, b, mid + 1, to, lo.c),
                      LAMBDA hi : [d |-> lo.d \o hi.d, c |-> hi.c]))

BigAdd(a, b) ==
  IF a = <<>> THEN b
  ELSE IF b = <<>> THEN a
  ELSE Then(AddRange(a, b, 1, IF Len(a) > Len(b) THEN Len(a) ELSE Len(b), 0),
            LAMBDA r : r.d \o BigOf(r.c))

\* the digits from..to of a * m and the carry out of them, for a carry c in
RECURSIVE ScaleRange(_, _, _, _, _)
ScaleRange(a, m, from, to, c) ==
  IF from = to
    THEN [d |-> <<(a[from] * m + c) % Base>>, c |-> (a[from] * m + c) \div Base]
  ELSE LET mid == (from + to) \div 2
       IN Then(ScaleRange(a, m, from, mid, c),
               LAMBDA lo :
                 Then(ScaleRange(a, m, mid + 1, to, lo.c),
                      LAMBDA hi : [d |-> lo.d \o hi.d, c |-> hi.c]))

\* a * m for a natural m below 200000
BigScale(a, m) ==
  IF m = 0 \/ a = <<>> THEN <<>>
  ELSE Then(ScaleRange(a, m, 1, Len(a), 0), LAMBDA r : r.d \o BigOf(r.c))

\* x * Base^k
Shift(x, k) == IF x = <<>> THEN <<>> ELSE [i \in 1..k |-> 0] \o x

\* a times the digits from..to of b, in place
RECURSIVE MulRange(_, _, _, _)
MulRange(a, b, from, to) ==
  IF from > to THEN <<>>
  ELSE IF from = to THEN Shift(BigScale(a, b[from]), from - 1)
  ELSE LET mid == (from + to) \div 2
       IN Then(MulRange(a, b, from, mid),
               LAMBDA low : BigAdd(low, MulRange(a, b, mid + 1, to)))

BigMul(a, b) == MulRange(a, b, 1, Len(b))

BigLess(a, b) ==
  IF Len(a) # Len(b) THEN Len(a) < Len(b)
  ELSE \E i \in 1..Len(a) :
         /\ a[i] < b[i]
         /\ \A j \in (i + 1)..Len(a) : a[j] = b[j]

\* fractions n/d with d > 0
Frac(n, d) == [n |-> n, d |-> d]

FracOf(i) == Frac(BigOf(i), BigOf(1))

FracLess(x, y) == BigLess(BigMul(x.n, y.d), BigMul(y.n, x.d))

\* 0.00001, the stand-in for a zero average loss, in ticks
EpsilonTicks == 10

\* The loops of the three calculators are folds over the series; a fold over
\* from..to is written as the fold over its first half followed by the fold
\* over its second half, which visits the prices in the same order.
RECURSIVE SumOf(_, _, _)
SumOf(prices, from, to) ==
  IF from > to THEN <<>>
  ELSE IF from = to THEN BigOf(prices[from])
  ELSE LET mid == (from + to) \div 2
       IN BigAdd(SumOf(prices, from, mid), SumOf(prices, mid + 1, to))

\* the mean of prices[from..to]
MeanOf(prices, from, to) == Frac(SumOf(prices, from, to), BigOf(to - from + 1))

calculateSMA(prices, period) ==
  IF Len(prices) < period THEN <<>>
  ELSE [k \in 1..(Len(prices) - period + 1) |-> MeanOf(prices, k, k + period - 1)]

\* (price - ema) * multiplier + ema with multiplier = 2 / (period + 1), which
\* is (2 * price + (period - 1) * ema) / (period + 1)
EmaStep(ema, price, period) ==
  Frac(BigAdd(BigMul(ema.d, BigOf(2 * price)), BigScale(ema.n, period - 1)),
       BigScale(ema.d, period + 1))

\* the EMA after the prices from..to, starting from ema
RECURSIVE EmaOver(_, _, _, _, _)
EmaOver(prices, period, from, to, ema) ==
  IF from > to THEN ema
  ELSE IF from = to THEN EmaStep(ema, prices[from], period)
  ELSE LET mid == (from + to) \div 2
       IN Then(EmaOver(prices, period, from, mid, ema),
               LAMBDA e : EmaOver(prices, period, mid + 1, to, e))

\* variant: the recurrence is seeded with the first price of the window
calculateEMA_SeedLastPrice(prices, period) ==
  IF Len(prices) < period THEN <<>>
  ELSE [k \in 1..(Len(prices) - period + 1) |->
          EmaOver(prices, period, period + 1, period + k - 1,
                  FracOf(prices[period]))]

calculateEMA(prices, period) ==
  IF Len(prices) < period THEN <<>>
  ELSE [k \in 1..(Len(prices) - period + 1) |->
          EmaOver(prices, period, period + 1, period + k - 1,
                  MeanOf(prices, 1, period))]

\* changes[i] = prices[i + 1] - prices[i], split into its gain and its loss
Gain(prices, i) == IF prices[i + 1] > prices[i] THEN prices[i + 1] - prices[i] ELSE 0

Loss(prices, i) == IF prices[i + 1] < prices[i] THEN prices[i] - prices[i + 1] ELSE 0

RECURSIVE SumGains(_, _, _)
SumGains(prices, from, to) ==
  IF from > to THEN <<>>
  ELSE IF from = to THEN BigOf(Gain(prices, from))
  ELSE LET mid == (from + to) \div 2
       IN BigAdd(SumGains(prices, from, mid), SumGains(prices, mid + 1, to))

RECURSIVE SumLosses(_, _, _)
SumLosses(prices, from, to) ==
  IF from > to THEN <<>>
  ELSE IF from = to THEN BigOf(Loss(prices, from))
  ELSE LET mid == (from + to) \div 2
       IN BigAdd(SumLosses(prices, from, mid), SumLosses(prices, mid + 1, to))

\* ((avg * (period - 1)) + change) / period
Smooth(avg, change, period) ==
  Frac(BigAdd(BigScale(avg.n, period - 1), BigMul(avg.d, BigOf(change))),
       BigScale(avg.d, period))

\* avgGain and avgLoss after the changes from..to, starting from avg
RECURSIVE SmoothOver(_, _, _, _, _)
SmoothOver(prices, period, from, to, avg) ==
  IF from > to THEN avg
  ELSE IF from = to
    THEN [gain |-> Smooth(avg.gain, Gain(prices, from), period),
          loss |-> Smooth(avg.loss, Loss(prices, from), period)]
  ELSE LET mid == (from + to) \div 2
       IN Then(SmoothOver(prices, period, from, mid, avg),
               LAMBDA a : SmoothOver(prices, period, mid + 1, to, a))

\* rs = avgGain / (avgLoss === 0 ? 0.00001 : avgLoss); rsi = 100 - 100 / (1 + rs),
\* which is 100 * avgGain / (avgGain + that loss)
RsiValue(avg) ==
  LET loss == IF avg.loss.n = <<>> THEN FracOf(EpsilonTicks) ELSE avg.loss
      g == BigMul(avg.gain.n, loss.d)
  IN Frac(BigScale(g, 100), BigAdd(g, BigMul(loss.n, avg.gain.d)))

\* the k-th value is pushed after the changes period + 1 .. period + k have
\* been smoothed into the means of the first period changes
calculateRSI(prices, period) ==
  IF Len(prices) <= period THEN <<>>
  ELSE [k \in 1..(Len(prices) - 1 - period) |->
          RsiValue(SmoothOver(prices, period, period + 1, period + k,
                              [gain |-> Frac(SumGains(prices, 1, period), BigOf(period)),
                               loss |-> Frac(SumLosses(prices, 1, period), BigOf(period))]))]

(***************************************************************************)
(* analyzeStockPerformance. stockData is [symbol, given, prices]: given is  *)
(* FALSE when the prices field is missing. The result carries the signals  *)
(* and the recommendation; the indicator values it echoes are left out.    *)
(***************************************************************************)
\* q[q.length - 1]
Last(q) == q[Cardinality(DOMAIN q)]

\* the moving-average test of the recommendation
Alignment(price, sma20, sma50) ==
  IF FracLess(sma20, FracOf(price)) /\ FracLess(sma50, sma20) THEN "above"
  ELSE IF FracLess(FracOf(price), sma20) /\ FracLess(sma20, sma50) THEN "below"
  ELSE "mixed"

\* variant: the two averages are compared the other way round
Trend_Swapped(sma20, sma50) == IF FracLess(sma20, sma50) THEN "uptrend" ELSE "downtrend"

\* currentSMA20 > currentSMA50 ? 'uptrend' : 'downtrend'
Trend(sma20, sma50) == IF FracLess(sma50, sma20) THEN "uptrend" ELSE "downtrend"

MacdSignal(ema12, ema26) == IF FracLess(ema26, ema12) THEN "bullish" ELSE "bearish"

RsiSignal(rsi) ==
  IF FracLess(FracOf(70), rsi) THEN "overbought"
  ELSE IF FracLess(rsi, FracOf(30)) THEN "oversold"
  ELSE "neutral"

Alignments == {"above", "below", "mixed"}

MacdSignals == {"bullish", "bearish"}

RsiSignals == {"overbought", "oversold", "neutral"}

StartRecommendation == [action |-> "hold", confidence |-> Rat(50, 100), reasons |-> <<>>]

\* variant: the reasons of a step are put in front of the list
Scored_Prepends(rec, action, hundredths, reasons) ==
  [action |-> action, confidence |-> Add(rec.confidence, Rat(hundredths, 100)),
   reasons |-> reasons \o rec.reasons]

Scored(rec, action, hundredths, reasons) ==
  [action |-> action, confidence |-> Add(rec.confidence, Rat(hundredths, 100)),
   reasons |-> rec.reasons \o reasons]

MovingAverageStep(rec, alignment) ==
  IF alignment = "above"
    THEN Scored(rec, "buy", 15, <<"Price above both 20-day and 50-day moving averages">>)
  ELSE IF alignment = "below"
    THEN Scored(rec, "sell", 15, <<"Price below both 20-day and 50-day moving averages">>)
  ELSE rec

\* variant: the MACD step scores the signal but leaves a hold in place
MacdStep_HoldStays(rec, macdSignal) ==
  LET side == IF macdSignal = "bullish" THEN "buy" ELSE "sell"
      reason == IF macdSignal = "bullish" THEN "MACD indicates bullish momentum"
                ELSE "MACD indicates bearish momentum"
  IN IF rec.action = side THEN Scored(rec, side, 10, <<reason>>)
     ELSE IF rec.action = "hold" THEN Scored(rec, "hold", 5, <<reason>>)
     ELSE Scored(rec, rec.action, -5, <<reason>>)

\* variant: a MACD signal against the action costs nothing
MacdStep_NoPenalty(rec, macdSignal) ==
  LET side == IF macdSignal = "bullish" THEN "buy" ELSE "sell"
      reason == IF macdSignal = "bullish" THEN "MACD indicates bullish momentum"
                ELSE "MACD indicates bearish momentum"
  IN IF rec.action = side THEN Scored(rec, side, 10, <<reason>>)
     ELSE IF rec.action = "hold" THEN Scored(rec, side, 5, <<reason>>)
     ELSE Scored(rec, rec.action, 0, <<reason>>)

MacdStep(rec, macdSignal) ==
  IF macdSignal = "bullish"
    THEN (IF rec.action = "buy"
            THEN Scored(rec, "buy", 10, <<"MACD indicates bullish momentum">>)
          ELSE IF rec.action = "sell"
            THEN Scored(rec, "sell", -5, <<"MACD indicates bullish momentum">>)
          ELSE Scored(rec, "buy", 5, <<"MACD indicates bullish momentum">>))
  ELSE (IF rec.action = "sell"
          THEN Scored(rec, "sell", 10, <<"MACD indicates bearish momentum">>)
        ELSE IF rec.action = "buy"
          THEN Scored(rec, "buy", -5, <<"MACD indicates bearish momentum">>)
        ELSE Scored(rec, "sell", 5, <<"MACD indicates bearish momentum">>))

RsiStep(rec, rsiSignal) ==
  IF rsiSignal = "overbought"
    THEN (IF rec.action = "sell"
            THEN Scored(rec, "sell", 15, <<"RSI indicates overbought conditions">>)
          ELSE IF rec.action = "buy"
            THEN Scored(rec, "buy", -10,
                        <<"RSI indicates overbought conditions, contradicting buy signal",
                          "RSI indicates overbought conditions">>)
          ELSE Scored(rec, "sell", 10, <<"RSI indicates overbought conditions">>))
  ELSE IF rsiSignal = "oversold"
    THEN (IF rec.action = "buy"
            THEN Scored(rec, "buy", 15, <<"RSI indicates oversold conditions">>)
          ELSE IF rec.action = "sell"
            THEN Scored(rec, "sell", -10,
                        <<"RSI indicates oversold conditions, contradicting sell signal",
                          "RSI indicates oversold conditions">>)
          ELSE Scored(rec, "buy", 10, <<"RSI indicates oversold conditions">>))
  ELSE rec

\* Math.max(Math.min(confidence, 0.95), 0.05)
Capped(confidence) ==
  LET low == IF Lt(Rat(95, 100), confidence) THEN Rat(95, 100) ELSE confidence
  IN IF Lt(low, Rat(5, 100)) THEN Rat(5, 100) ELSE low

\* v.toFixed(digits): the decimal string of v rounded to that many digits
ToFixed(v, digits) ==
  LET scaled == Abs(v.n) * Pow10(digits)
      rounded == (2 * scaled + v.d) \div (2 * v.d)
  IN [Rat(Sign(v.n) * rounded, Pow10(digits)) EXCEPT !.k = "str"]

\* variant: the confidence is printed with no decimals
Reported_NoDecimals(confidence) == ToFixed(confidence, 0)

\* confidence.toFixed(2)
Reported(confidence) == ToFixed(confidence, 2)

Recommend(alignment, macdSignal, rsiSignal) ==
  LET rec == RsiStep(MacdStep(MovingAverageStep(StartRecommendation, alignment),
                              macdSignal), rsiSignal)
  IN [action |-> rec.action, confidence |-> Reported(Capped(rec.confidence)),
      reasons |-> rec.reasons]

\* variant: series of up to 50 prices are turned away
TooShort_AtMost50(data) == ~data.given \/ Len(data.prices) <= 50

\* !prices || prices.length < 50
TooShort(data) == ~data.given \/ Len(data.prices) < 50

analyzeStockPerformance(data) ==
  IF TooShort(data)
    THEN [symbol |-> data.symbol, status |-> "insufficient_data",
          message |-> "Not enough historical data for analysis"]
  ELSE LET prices == data.prices
           currentPrice == Last(prices)
           currentSMA20 == Last(calculateSMA(prices, 20))
           currentSMA50 == Last(calculateSMA(prices, 50))
           currentEMA12 == Last(calculateEMA(prices, 12))
           currentEMA26 == Last(calculateEMA(prices, 26))
           currentRSI == Last(calculateRSI(prices, 14))
       IN [symbol |-> data.symbol, status |-> "success",
           currentPrice |-> currentPrice,
           trend |-> Trend(currentSMA20, currentSMA50),
           macdSignal |-> MacdSignal(currentEMA12, currentEMA26),
           rsiSignal |-> RsiSignal(currentRSI),
           recommendation |->
             Recommend(Alignment(currentPrice, currentSMA20, currentSMA50),
                       MacdSignal(currentEMA12, currentEMA26),
                       RsiSignal(currentRSI))]

(***************************************************************************)
(* The analytics as a machine: a caller hands over one stockData object    *)
(* and analyzeStockPerformance returns its analysis. The series are drawn  *)
(* from shapes, scaled by a step and laid on a starting price, with        *)
(* lengths on both sides of the 50 points the analysis asks for.           *)
(***************************************************************************)
\* the series length below which the analysis is refused
MinPoints == 50

SeriesShapes ==
  {"rising", "falling", "flat", "zigzag", "accelerating", "decelerating",
   "latejump", "earlyjump"}

SeriesLengths == {0, MinPoints - 1, MinPoints, MinPoints + 1}

\* increments in ticks: below, at and above the 0.00001 that replaces a zero
\* average loss, and a tenth of a currency unit
SeriesSteps == {1, EpsilonTicks, 100000}

SeriesStarts == {10 * TicksPerUnit, 100 * TicksPerUnit}

Offset(shape, i, len) ==
  CASE shape = "rising" -> i
    [] shape = "falling" -> 0 - i
    [] shape = "flat" -> 0
    [] shape = "zigzag" ->
         i + (IF i % 3 = 0 THEN 3 ELSE 0) - (IF i % 7 = 0 THEN 5 ELSE 0)
    [] shape = "accelerating" -> i * i
    [] shape = "decelerating" -> i * (2 * len + 1 - i)
    [] shape = "latejump" -> i + (IF i = len THEN 1000 ELSE 0)
    [] shape = "earlyjump" -> i + (IF i > 1 THEN 1000 ELSE 0)

Series(shape, len, start, step) ==
  [i \in 1..len |-> start + step * Offset(shape, i, len)]

StockInputs ==
  {[symbol |-> "AAPL", given |-> FALSE, prices |-> <<>>]} \cup
  {[symbol |-> "AAPL", given |-> TRUE, prices |-> Series(shape, len, start, step)] :
     shape \in SeriesShapes, len \in SeriesLengths,
     start \in SeriesStarts, step \in SeriesSteps}

InitAnalysis ==
  /\ InitLedger
  /\ stockData \in StockInputs
  /\ analysis = NotAnalyzed
  /\ InitIndicators
  /\ InitBatch

AnalyzeStockPerformance ==
  /\ analysis' = analyzeStockPerformance(stockData)
  /\ UNCHANGED <<stockData, indicatorInput, indicatorValues, ledgerVars, batchVars>>

NextAnalysis == AnalyzeStockPerformance

SpecAnalysis == InitAnalysis /\ [][NextAnalysis]_vars

(***************************************************************************)
(* The report of analyzePerformance. The historical values are exact       *)
(* fractions; Math.random() is sampled once per call and gives every round *)
(* the same daily change rate. Dates are day numbers counted from the day  *)
(* of the call. The fields derived from the series with Math.pow and       *)
(* Math.sqrt are left out. The machine asks for one report per run.        *)
(***************************************************************************)
PerformancePeriods == {"1d", "1w", "1m", "3m", "1y", "5y"}

\* the values Math.random() * 0.025 - 0.01 can take, sampled, in 1/100
ChangeDraws == {-1, 0, 1}

\* the switch on period
DataPoints(period) ==
  CASE period = "1d" -> 24
    [] period = "1w" -> 7
    [] period = "1m" -> 30
    [] period = "3m" -> 90
    [] period = "1y" -> 365
    [] OTHER -> 30

\* dailyChange = value * rate; value -= dailyChange
Declined(value, rate) ==
  IF rate = 0 THEN value
  ELSE Frac(BigScale(value.n, 100 - rate), BigScale(value.d, 100))

\* the rounds from..to of the loop, folded by halves: the value after them
\* and the values they produced, in the order of the rounds
RECURSIVE HistoryOver(_, _, _, _)
HistoryOver(draw, from, to, value) ==
  IF from = to
    THEN Then(Declined(value, draw),
              LAMBDA v : [value |-> v, list |-> <<v>>])
  ELSE LET mid == (from + to) \div 2
       IN Then(HistoryOver(draw, from, mid, value),
               LAMBDA lo :
                 Then(HistoryOver(draw, mid + 1, to, lo.value),
                      LAMBDA hi : [value |-> hi.value, list |-> lo.list \o hi.list]))

\* a finite number >= 0 as a fraction
FracOfValue(v) == Frac(BigOf(ToNumber(v).n), BigOf(ToNumber(v).d))

\* historicalValues.unshift(...) puts round i at the front: the entry at
\* index j is the one of round dataPoints - j, dated that many days back
Report(period, currentValue, rounds) ==
  LET dataPoints == Len(rounds)
      historicalValues ==
        [j \in 1..dataPoints |->
           [date |-> 0 - (dataPoints - j), value |-> rounds[dataPoints - j + 1]]]
  IN [period |-> period,
      currentValue |-> currentValue,
      startValue |-> rounds[dataPoints],
      historicalValues |-> historicalValues]

analyzePerformance(pf, period, draw) ==
  Then(FracOfValue(getPortfolio(pf).totalValue),
       LAMBDA totalValue :
         Then(HistoryOver(draw, 0, DataPoints(period) - 1, totalValue).list,
              LAMBDA rounds : Report(period, totalValue, rounds)))

ReportPerformance ==
  /\ performance = NoReport
  /\ \E period \in PerformancePeriods, draw \in ChangeDraws :
       performance' = analyzePerformance(Portfolio, period, draw)
  /\ lastResult' = Outcome("analyzePerformance", "success", "none")
  /\ UNCHANGED <<cash, positions, transactions, refreshes, analyticsVars, batchVars>>

ExecuteScenarioOrder == Call("direct", ScenarioOrders)

NextPerformance ==
  \/ ExecuteScenarioOrder
  \/ ReportPerformance

SpecPerformance == Init /\ [][NextPerformance]_vars

(***************************************************************************)
(* The three indicator calculators called on their own: a caller hands     *)
(* over a price series and a period and gets the sequence of values back.  *)
(***************************************************************************)
\* the series handed to a calculator have at most MaxSeries prices
MaxSeries == 5

\* and the periods are at most MaxPeriod
MaxPeriod == 3

TickPrices == {100 * TicksPerUnit, 101 * TicksPerUnit, 103 * TicksPerUnit}

IndicatorInputs ==
  {[prices |-> prices, period |-> period] :
     prices \in UNION {[1..n -> TickPrices] : n \in 0..MaxSeries},
     period \in 1..MaxPeriod}

InitCalculators ==
  /\ InitLedger
  /\ stockData = NoStockData
  /\ analysis = NotAnalyzed
  /\ indicatorInput \in IndicatorInputs
  /\ indicatorValues = NotCalculated
  /\ InitBatch

Calculated(name, values) ==
  /\ indicatorValues' = [name |-> name, values |-> values]
  /\ UNCHANGED <<indicatorInput, stockData, analysis, ledgerVars, batchVars>>

CalculateSMA ==
  Calculated("sma", calculateSMA(indicatorInput.prices, indicatorInput.period))

CalculateEMA ==
  Calculated("ema", calculateEMA(indicatorInput.prices, indicatorInput.period))

CalculateRSI ==
  Calculated("rsi", calculateRSI(indicatorInput.prices, indicatorInput.period))

NextCalculators ==
  \/ CalculateSMA
  \/ CalculateEMA
  \/ CalculateRSI

SpecCalculators == InitCalculators /\ [][NextCalculators]_vars

(***************************************************************************)
(* batchAnalyzeStocks (src/services/stockAnalysisService.js). Every        *)
(* requested symbol gets its own getStockAnalysis promise; the promises    *)
(* are fulfilled one at a time in any order, and Promise.all hands the     *)
(* values back once all of them are fulfilled. The mock price walk of      *)
(* fetchHistoricalData is random: a walk fixes its starting price and the  *)
(* direction of its daily changes.                                         *)
(***************************************************************************)
\* a batch asks for at most MaxBatch symbols
MaxBatch == 3

\* the number of data points getStockAnalysis asks for
HistoryLimit == 100

MockWalks ==
  {[start |-> 100 * TicksPerUnit, change |-> "up"],
   [start |-> 100 * TicksPerUnit, change |-> "down"],
   [start |-> 100 * TicksPerUnit, change |-> "mixed"]}

\* (Math.random() - 0.5) * 3 + trend, in ticks: between -1.45 and 1.55
Change(walk, i) ==
  CASE walk.change = "up" -> 1500000
    [] walk.change = "down" -> 0 - 1400000
    [] walk.change = "mixed" -> IF i % 2 = 1 THEN 1500000 ELSE 0 - 1400000

\* currentPrice += change; currentPrice = Math.max(currentPrice, 1)
WalkStep(walk, i, before) ==
  IF before + Change(walk, i) < TicksPerUnit
    THEN TicksPerUnit ELSE before + Change(walk, i)

\* currentPrice after the rounds from..to of the loop, folded by halves
RECURSIVE WalkOver(_, _, _, _)
WalkOver(walk, from, to, before) ==
  IF from > to THEN before
  ELSE IF from = to THEN WalkStep(walk, from, before)
  ELSE LET mid == (from + to) \div 2
       IN Then(WalkOver(walk, from, mid, before),
               LAMBDA half : WalkOver(walk, mid + 1, to, half))

fetchHistoricalData(symbol, walk, limit) ==
  [symbol |-> symbol, given |-> TRUE,
   prices |-> [i \in 1..limit |-> WalkOver(walk, 1, i, walk.start)]]

getStockAnalysis(symbol, walk) ==
  analyzeStockPerformance(fetchHistoricalData(symbol, walk, HistoryLimit))

\* the analysis of every symbol under every walk, worked out once
MockAnalyses ==
  {[symbol |-> symbol, walk |-> walk, analysis |-> getStockAnalysis(symbol, walk)] :
     symbol \in Symbols, walk \in MockWalks}

AnalysisOf(symbol, walk) ==
  (CHOOSE entry \in MockAnalyses : entry.symbol = symbol /\ entry.walk = walk).analysis

SymbolLists == UNION {[1..n -> Symbols] : n \in 0..MaxBatch}

\* a promise that is not fulfilled yet
Pending == [status |-> "pending"]

\* variant: the values come back in the order in which they arrived
PromiseAll_CompletionOrder(promises, arrival) ==
  [k \in 1..Len(promises) |-> promises[arrival[k]]]

\* Promise.all(promises): the value of the i-th promise at index i
PromiseAll(promises, arrival) ==
  [k \in 1..Len(promises) |-> promises[k]]

\* symbols.map(symbol => getStockAnalysis(symbol, timeframe))
BatchAnalyzeStocks ==
  /\ batch = "idle"
  /\ \E symbols \in SymbolLists :
       /\ requested' = symbols
       /\ analysisPromises' = [i \in 1..Len(symbols) |-> Pending]
  /\ completionOrder' = <<>>
  /\ batch' = "running"
  /\ UNCHANGED <<results, ledgerVars, analyticsVars>>

\* one getStockAnalysis promise is fulfilled
GetStockAnalysis ==
  /\ batch = "running"
  /\ \E i \in 1..Len(requested), walk \in MockWalks :
       /\ analysisPromises[i] = Pending
       /\ analysisPromises' =
            [analysisPromises EXCEPT ![i] = AnalysisOf(requested[i], walk)]
       /\ completionOrder' = Append(completionOrder, i)
  /\ UNCHANGED <<batch, requested, results, ledgerVars, analyticsVars>>

\* await Promise.all(analysisPromises); return results
BatchReturn ==
  /\ batch = "running"
  /\ \A i \in 1..Len(requested) : analysisPromises[i] # Pending
  /\ results' = PromiseAll(analysisPromises, completionOrder)
  /\ batch' = "returned"
  /\ UNCHANGED <<requested, analysisPromises, completionOrder, ledgerVars, analyticsVars>>

NextBatch ==
  \/ BatchAnalyzeStocks
  \/ GetStockAnalysis
  \/ BatchReturn

SpecBatch == Init /\ [][NextBatch]_vars

(***************************************************************************)
(* Properties of the ledger.                                               *)
(***************************************************************************)

C2_Claim ==
  \A o \in {x \in Orders : x.action = "buy" /\ x.quantity.k = "num"} :
    \A rnd \in RandomDraws(o) :
      LET res == executeOrder(Portfolio, o, rnd, DateNow(transactions, 0))
      IN OrderValue(o, CurrentPrice(o, rnd)) > cash
           => (res.status = "error" /\ res.pf = Portfolio)

\* C3: cash is never negative in a state reached by orders that keep to the
\* order contract (SpecAllowed), market orders with a caller-supplied price
\* included.
C3_Claim == cash >= 0

\* C4: every position present in the portfolio has a quantity above zero.
C4_Claim == \A i \in 1..Len(positions) : positions[i].quantity > 0

\* C5: the positions hold at most one position for a symbol.
C5_Theorem ==
  \A i, j \in 1..Len(positions) :
    i # j => positions[i].symbol # positions[j].symbol

\* two buys of one symbol were folded into a single position
C5_Witness ==
  /\ Len(transactions) = 2
  /\ transactions[1].action = "buy" /\ transactions[2].action = "buy"
  /\ transactions[1].symbol = transactions[2].symbol
  /\ transactions[1].quantity > 0 /\ transactions[2].quantity > 0
  /\ Len(positions) = 1
  /\ positions[1].quantity = transactions[1].quantity + transactions[2].quantity

\* C6: the transaction log only grows between resets: a call that returns
\* 'executed' appends exactly one transaction at the end, a call that
\* returns 'error' or 'pending' appends none, and only resetPortfolio
\* removes or edits an entry.
C6_Claim ==
  [][ /\ (lastResult'.op = "executeOrder" /\ lastResult'.status = "executed")
           => (/\ Len(transactions') = Len(transactions) + 1
               /\ SubSeq(transactions', 1, Len(transactions)) = transactions)
      /\ (lastResult'.op = "executeOrder" /\ lastResult'.status \in {"error", "pending"})
           => transactions' = transactions
      /\ lastResult'.op \in {"updatePortfolio", "getPortfolio"}
           => transactions' = transactions ]_vars

C8_Claim ==
  \A o \in {x \in Orders : x.type = "limit" /\ ~MissingParams(x) /\ ~InvalidAction(x)} :
    \A rnd \in RandomDraws(o) :
      LET cp == CurrentPrice(o, rnd)
          res == executeOrder(Portfolio, o, rnd, DateNow(transactions, 0))
          met == IF o.action = "buy" THEN Le(cp, o.price) ELSE Le(o.price, cp)
      IN /\ res.status = "executed" => met
         /\ ~met => res.status = "pending"

\* C9: in every reachable state, a call that returns 'pending' leaves cash,
\* positions and the transaction log as they were, and nothing waits to be
\* executed later: a transaction that any call appends is for that call's
\* own order, and updatePortfolio appends none and leaves the cash alone.
C9_Theorem ==
  /\ \A path \in Paths, o \in Orders :
       \A rnd \in RandomDraws(o) :
         LET res == Enter(path, Portfolio, o, rnd, DateNow(transactions, 0))
             n == Len(transactions)
         IN /\ res.status = "pending" => res.pf = Portfolio
            /\ res.pf.transactions # transactions =>
                 /\ Len(res.pf.transactions) = n + 1
                 /\ SubSeq(res.pf.transactions, 1, n) = transactions
                 /\ res.pf.transactions[n + 1].symbol = o.symbol
                 /\ res.pf.transactions[n + 1].action = o.action
                 /\ NumV(res.pf.transactions[n + 1].quantity) = ToNumber(o.quantity)
  /\ \A drift \in [1..Len(positions) -> DriftsBp] :
       LET pf == updatePortfolio(Portfolio, drift)
       IN pf.transactions = transactions /\ pf.cash = cash
  /\ getPortfolio(Portfolio).transactions = transactions

\* a limit order was left waiting while a position was held
C9_Witness ==
  /\ lastResult.op = "executeOrder"
  /\ lastResult.status = "pending"
  /\ positions # <<>>

\* C10: on every entry path an order is refused with an 'error' result and
\* no change to the portfolio when symbol, type, action or quantity is
\* missing, type is not market/limit, action is not buy/sell, quantity
\* is <= 0, or it is a limit order whose price is missing or <= 0.
C10_Claim ==
  \A path \in Paths, o \in Orders :
    \A rnd \in RandomDraws(o) :
      LET res == Enter(path, Portfolio, o, rnd, DateNow(transactions, 0))
          refused ==
            \/ o.symbol = Undefined \/ o.type = Undefined
            \/ o.action = Undefined \/ o.quantity = UndefV
            \/ o.type \notin {"market", "limit"}
            \/ o.action \notin {"buy", "sell"}
            \/ Le(o.quantity, NumV(0))
            \/ o.type = "limit" /\ (o.price = UndefV \/ Le(o.price, NumV(0)))
      IN refused => (res.status = "error" /\ res.pf = Portfolio)

\* C11: whatever the state before it, resetPortfolio leaves cash 100000, no
\* positions and an empty transaction log, and the snapshot it returns
\* reports that state with totalValue 100000.
C11_Theorem ==
  [][ lastResult'.op = "resetPortfolio" =>
        /\ cash' = 100000 /\ positions' = <<>> /\ transactions' = <<>>
        /\ getPortfolio(resetPortfolio) =
             [cash |-> 100000, positions |-> <<>>, transactions |-> <<>>,
              totalValue |-> NumV(100000)] ]_vars

\* the portfolio just after a reset
C11_Witness ==
  /\ lastResult.op = "resetPortfolio"
  /\ cash = 100000 /\ positions = <<>> /\ transactions = <<>>

\* C12: from a state with no position in a symbol, an executed buy of q
\* shares at price p followed by an executed sell of q shares at the same
\* price p brings the cash back to what it was, leaves no position for the
\* symbol, and grows the log by exactly those two transactions.
C12_Theorem ==
  \A b \in {o \in Orders : o.action = "buy"} :
    \A rb \in RandomDraws(b) :
      LET n == Len(transactions)
          r1 == executeOrder(Portfolio, b, rb, DateNow(transactions, 0))
      IN (FindPosition(positions, b.symbol) = 0 /\ r1.status = "executed") =>
           \A s \in {o \in Orders : /\ o.action = "sell"
                                    /\ o.symbol = b.symbol
                                    /\ o.quantity = b.quantity} :
             \A rs \in RandomDraws(s) :
               LET r2 == executeOrder(r1.pf, s, rs, DateNow(r1.pf.transactions, 0))
                   log == r2.pf.transactions
               IN (r2.status = "executed" /\ log[n + 2].price = log[n + 1].price) =>
                    /\ r2.pf.cash = cash
                    /\ FindPosition(r2.pf.positions, b.symbol) = 0
                    /\ Len(log) = n + 2
                    /\ SubSeq(log, 1, n) = transactions
                    /\ log[n + 1].action = "buy" /\ log[n + 2].action = "sell"

\* a buy and a sell of the same shares at the same price, on a fresh portfolio
C12_Witness ==
  /\ Len(transactions) = 2
  /\ transactions[1].action = "buy" /\ transactions[2].action = "sell"
  /\ transactions[1].symbol = transactions[2].symbol
  /\ transactions[1].quantity = transactions[2].quantity
  /\ transactions[1].price = transactions[2].price
  /\ lastResult.status = "executed"
  /\ positions = <<>>
  /\ cash = 100000

C14_Theorem ==
  [][ \A s \in Symbols :
        LET i == FindPosition(positions, s)
            j == FindPosition(positions', s)
        IN (i # 0 /\ j # 0 /\ positions'[j].costBasis # positions[i].costBasis) =>
             /\ lastResult'.op = "executeOrder"
             /\ Len(transactions') = Len(transactions) + 1
             /\ transactions'[Len(transactions')].action = "buy"
             /\ transactions'[Len(transactions')].symbol = s ]_vars

\* two shares bought, one of them sold: the position keeps its cost basis
C14_Witness ==
  /\ Len(transactions) = 2
  /\ transactions[1].action = "buy" /\ transactions[1].quantity = 2
  /\ transactions[2].action = "sell" /\ transactions[2].quantity = 1
  /\ transactions[1].symbol = transactions[2].symbol
  /\ lastResult.status = "executed"
  /\ Len(positions) = 1
  /\ positions[1].quantity = 1
  /\ positions[1].costBasis = transactions[1].price

\* C15: a market buy of 10 shares with no price on a fresh portfolio (cash
\* 100000, no positions) is executed whatever price is drawn, and every
\* executed buy lowers the cash by exactly quantity * price, every executed
\* sell raises it by exactly quantity * price, for the price recorded in the
\* returned transaction.
C15_Theorem ==
  /\ (cash = 100000 /\ positions = <<>>) =>
       \A rnd \in RandomPrices :
         executeOrder(Portfolio, Order("MSFT", "market", "buy", NumV(10), UndefV),
                      rnd, DateNow(transactions, 0)).status = "executed"
  /\ \A o \in Orders :
       \A rnd \in RandomDraws(o) :
         LET res == executeOrder(Portfolio, o, rnd, DateNow(transactions, 0))
             t == res.pf.transactions[Len(transactions) + 1]
             amount == Mul(ToNumber(o.quantity), t.price)
         IN res.status = "executed" =>
              /\ o.action = "buy" => Add(NumV(res.pf.cash), amount) = NumV(cash)
              /\ o.action = "sell" => NumV(res.pf.cash) = Add(NumV(cash), amount)

\* 10 MSFT bought at the drawn price on a fresh portfolio
C15_Witness ==
  /\ Len(transactions) = 1
  /\ transactions[1].symbol = "MSFT"
  /\ transactions[1].action = "buy"
  /\ transactions[1].quantity = 10
  /\ lastResult.status = "executed"
  /\ NumV(100000 - cash) = Mul(NumV(10), transactions[1].price)

\* C20: whatever goes wrong inside executeOrder comes back as a result with
\* status 'error', and such a call leaves the portfolio exactly as it was:
\* every check that can fail runs before the first write to cash, positions
\* or the transaction log.
C20_Claim ==
  \A o \in AllOrders :
    \A rnd \in RandomDraws(o) :
      LET res == executeOrder(Portfolio, o, rnd, DateNow(transactions, 0))
      IN /\ res.status \in {"executed", "pending", "error"}
         /\ res.status # "executed" => res.pf = Portfolio

(***************************************************************************)
(* Properties of the analytics.                                            *)
(***************************************************************************)
\* C17: analyzeStockPerformance returns the status insufficient_data, as a
\* value and with no recommendation, exactly when the price series is
\* missing or has fewer than 50 prices; for every series of 50 or more
\* prices it returns the status success with a recommendation.
C17_Theorem ==
  analysis # NotAnalyzed =>
    LET short == ~stockData.given \/ Len(stockData.prices) < MinPoints
    IN /\ analysis.status \in {"insufficient_data", "success"}
       /\ analysis.status = "insufficient_data" <=> short
       /\ short => "recommendation" \notin DOMAIN analysis
       /\ ~short => /\ analysis.status = "success"
                    /\ "recommendation" \in DOMAIN analysis
                    /\ analysis.recommendation.action \in {"buy", "sell", "hold"}

\* a series one price short of the minimum has been refused
C17_Witness ==
  /\ stockData.given
  /\ Len(stockData.prices) = MinPoints - 1
  /\ analysis.status = "insufficient_data"

\* the reported confidence, read as a number, is within [0.05, 0.95]
InBand(confidence) == Le(Rat(5, 100), confidence) /\ Le(confidence, Rat(95, 100))

\* C18: for every combination of moving-average alignment, MACD signal and
\* RSI signal the confidence of the recommendation lies in [0.05, 0.95],
\* and so does the confidence of every analysis that was returned.
C18_Theorem ==
  /\ \A alignment \in Alignments, macdSignal \in MacdSignals, rsiSignal \in RsiSignals :
       InBand(Recommend(alignment, macdSignal, rsiSignal).confidence)
  /\ analysis.status = "success" => InBand(analysis.recommendation.confidence)

\* an analysis whose three signals agree has been returned: the highest
\* confidence the walk can reach
C18_Witness ==
  /\ analysis.status = "success"
  /\ analysis.recommendation.action = "buy"
  /\ analysis.macdSignal = "bullish"
  /\ analysis.rsiSignal = "oversold"
  /\ ToNumber(analysis.recommendation.confidence) = Rat(90, 100)

StrictlyIncreasing(q) == \A i \in 1..(Len(q) - 1) : q[i] < q[i + 1]

\* C19: for a strictly increasing series of exactly 50 prices the analysis
\* reports trend uptrend, MACD signal bullish, action buy and a confidence
\* greater than 0.5.
C19_Theorem ==
  (/\ analysis # NotAnalyzed
   /\ stockData.given
   /\ Len(stockData.prices) = 50
   /\ StrictlyIncreasing(stockData.prices))
  => /\ analysis.status = "success"
     /\ analysis.trend = "uptrend"
     /\ analysis.macdSignal = "bullish"
     /\ analysis.recommendation.action = "buy"
     /\ Lt(Rat(50, 100), analysis.recommendation.confidence)

\* a rising 50-point series has been analysed and its RSI, being
\* overbought, has taken confidence away from the buy
C19_Witness ==
  /\ stockData.given
  /\ Len(stockData.prices) = 50
  /\ StrictlyIncreasing(stockData.prices)
  /\ analysis.status = "success"
  /\ analysis.rsiSignal = "overbought"
  /\ ToNumber(analysis.recommendation.confidence) = Rat(65, 100)

(***************************************************************************)
(* Properties of the batch analysis.                                       *)
(***************************************************************************)
\* C16: whatever the list of symbols and whatever the order in which the
\* analyses complete, batchAnalyzeStocks returns a list as long as the
\* request whose i-th entry is the analysis of the i-th requested symbol.
C16_Theorem ==
  batch = "returned" =>
    /\ Len(results) = Len(requested)
    /\ \A i \in 1..Len(requested) :
         /\ results[i] = analysisPromises[i]
         /\ results[i].symbol = requested[i]

\* a batch of three has returned whose last analysis completed first
C16_Witness ==
  /\ batch = "returned"
  /\ Len(requested) = 3
  /\ requested[1] # requested[3]
  /\ completionOrder = <<3, 1, 2>>

(***************************************************************************)
(* Properties of the recommendation walk and of the indicators.            *)
(***************************************************************************)
\* the other side of a trade
Opposite(side) == IF side = "buy" THEN "sell" ELSE "buy"

\* a signal for one side met by a walk standing at [action, hundredths]:
\* agreeing, contradicting, or deciding a hold
RefSignal(at, side, agree, contradict, decide) ==
  IF at.action = side THEN [action |-> side, hundredths |-> at.hundredths + agree]
  ELSE IF at.action = Opposite(side)
    THEN [action |-> at.action, hundredths |-> at.hundredths - contradict]
  ELSE [action |-> side, hundredths |-> at.hundredths + decide]

\* the walk as the specification words it, in hundredths of confidence
RefWalk(alignment, macdSignal, rsiSignal) ==
  LET start == [action |-> "hold", hundredths |-> 50]
      one == IF alignment = "above" THEN [action |-> "buy", hundredths |-> 65]
             ELSE IF alignment = "below" THEN [action |-> "sell", hundredths |-> 65]
             ELSE start
      two == RefSignal(one, IF macdSignal = "bullish" THEN "buy" ELSE "sell", 10, 5, 5)
      three == IF rsiSignal = "neutral" THEN two
               ELSE RefSignal(two, IF rsiSignal = "overbought" THEN "sell" ELSE "buy",
                              15, 10, 10)
      clamped == IF three.hundredths > 95 THEN 95
                 ELSE IF three.hundredths < 5 THEN 5 ELSE three.hundredths
  IN [action |-> three.action, hundredths |-> clamped]

\* the recommendation rec has the action and the confidence of the walk ref
AsWalked(rec, ref) ==
  /\ rec.action = ref.action
  /\ ToNumber(rec.confidence) = Rat(ref.hundredths, 100)

\* the moving-average alignment of the series in stockData
StockAlignment ==
  Alignment(Last(stockData.prices), Last(calculateSMA(stockData.prices, 20)),
            Last(calculateSMA(stockData.prices, 50)))

\* C21: for each of the 3 x 2 x 3 signal combinations the action and the
\* confidence of the recommendation are those of the three-step reference
\* walk from hold/0.5 followed by the clamp, and every returned analysis
\* carries the recommendation of the walk over its own signals.
C21_Theorem ==
  /\ \A alignment \in Alignments, macdSignal \in MacdSignals, rsiSignal \in RsiSignals :
       AsWalked(Recommend(alignment, macdSignal, rsiSignal),
                RefWalk(alignment, macdSignal, rsiSignal))
  /\ analysis.status = "success" =>
       AsWalked(analysis.recommendation,
                RefWalk(StockAlignment, analysis.macdSignal, analysis.rsiSignal))

\* a returned analysis whose walk went sell, sell, and then lost confidence
\* to an oversold RSI
C21_Witness ==
  /\ analysis.status = "success"
  /\ analysis.recommendation.action = "sell"
  /\ analysis.macdSignal = "bearish"
  /\ analysis.rsiSignal = "oversold"
  /\ ToNumber(analysis.recommendation.confidence) = Rat(65, 100)

\* the scoring step a reason comes from
StepOf(reason) ==
  IF reason \in {"Price above both 20-day and 50-day moving averages",
                 "Price below both 20-day and 50-day moving averages"} THEN 1
  ELSE IF reason \in {"MACD indicates bullish momentum",
                      "MACD indicates bearish momentum"} THEN 2
  ELSE 3

\* the number of reasons in the list that come from the given step
ReasonsOf(reasons, step) ==
  Cardinality({k \in 1..Len(reasons) : StepOf(reasons[k]) = step})

\* the reasons are in step order
InStepOrder(reasons) ==
  \A j, k \in 1..Len(reasons) : j < k => StepOf(reasons[j]) <= StepOf(reasons[k])

\* every one of the three steps has left a reason, in step order
EachStepReasoned(reasons) ==
  /\ InStepOrder(reasons)
  /\ \A step \in 1..3 : ReasonsOf(reasons, step) >= 1

\* C22 (as stated): each of the three scoring steps appends a reason and
\* the reasons are in step order, moving averages, MACD, RSI, whatever the
\* signals of the analysis.
C22_Claim ==
  analysis.status = "success" => EachStepReasoned(analysis.recommendation.reasons)

\* the reasons a walk over the given signals leaves: one from the
\* moving-average step unless the averages are mixed, one from the MACD
\* step, one or two from the RSI step unless the RSI is neutral
StepReasoned(reasons, alignment, rsiSignal) ==
  /\ InStepOrder(reasons)
  /\ ReasonsOf(reasons, 1) = (IF alignment = "mixed" THEN 0 ELSE 1)
  /\ ReasonsOf(reasons, 2) = 1
  /\ IF rsiSignal = "neutral" THEN ReasonsOf(reasons, 3) = 0
     ELSE ReasonsOf(reasons, 3) \in {1, 2}

\* C22 (amended): every scoring step that acts appends its reason and the
\* reasons are in step order; the moving-average step appends none when the
\* price is not on one side of both averages, and the RSI step appends none
\* when the RSI is neutral.
C22_Theorem ==
  /\ \A alignment \in Alignments, macdSignal \in MacdSignals, rsiSignal \in RsiSignals :
       StepReasoned(Recommend(alignment, macdSignal, rsiSignal).reasons,
                    alignment, rsiSignal)
  /\ analysis.status = "success" =>
       StepReasoned(analysis.recommendation.reasons, StockAlignment, analysis.rsiSignal)

\* an analysis in which all three steps acted and the RSI step left two
\* reasons has been returned
C22_Witness ==
  /\ analysis.status = "success"
  /\ Len(analysis.recommendation.reasons) = 4
  /\ StepOf(analysis.recommendation.reasons[1]) = 1
  /\ StepOf(analysis.recommendation.reasons[4]) = 3

\* the sum of the first count prices, as an integer
RECURSIVE FirstSum(_, _)
FirstSum(prices, count) ==
  IF count = 0 THEN 0 ELSE FirstSum(prices, count - 1) + prices[count]

\* the fraction x is the integer quotient num / den
IsQuotient(x, num, den) == BigMul(x.n, BigOf(den)) = BigMul(BigOf(num), x.d)

\* max(0, len - p + 1)
WindowCount(len, p) == IF len - p + 1 > 0 THEN len - p + 1 ELSE 0

\* C23: calculateSMA and calculateEMA return max(0, len - p + 1) values,
\* none when the series is shorter than the period; calculateSMA with period
\* 1 returns the series itself, and the first value of calculateEMA is the
\* arithmetic mean of the first p prices.
C23_Theorem ==
  LET prices == indicatorInput.prices
      p == indicatorInput.period
      values == indicatorValues.values
  IN indicatorValues.name \in {"sma", "ema"} =>
       /\ Len(values) = WindowCount(Len(prices), p)
       /\ Len(prices) < p => values = <<>>
       /\ (indicatorValues.name = "sma" /\ p = 1) =>
            \A i \in 1..Len(prices) : IsQuotient(values[i], prices[i], 1)
       /\ (indicatorValues.name = "ema" /\ Len(prices) >= p) =>
            IsQuotient(values[1], FirstSum(prices, p), p)

\* calculateEMA has returned several values for a series whose first
\* prices differ
C23_Witness ==
  /\ indicatorValues.name = "ema"
  /\ indicatorInput.period = 3
  /\ Len(indicatorValues.values) = 3
  /\ indicatorInput.prices[1] # indicatorInput.prices[3]

\* the RSI of the simple means of the gains and losses over the first
\* period changes of the series
SeedRsi(prices, period) ==
  RsiValue([gain |-> Frac(SumGains(prices, 1, period), BigOf(period)),
            loss |-> Frac(SumLosses(prices, 1, period), BigOf(period))])

\* the fractions x and y are the same number
SameFrac(x, y) == BigMul(x.n, y.d) = BigMul(y.n, x.d)

\* C24: calculateRSI returns the empty sequence when the series has at most
\* period prices and a non-empty sequence whenever it has more, the first
\* value being the RSI of the simple means of gains and losses over the
\* first period changes.
C24_Claim ==
  LET prices == indicatorInput.prices
      p == indicatorInput.period
      values == indicatorValues.values
  IN indicatorValues.name = "rsi" =>
       /\ Len(prices) <= p => values = <<>>
       /\ Len(prices) > p =>
            /\ values # <<>>
            /\ SameFrac(values[1], SeedRsi(prices, p))

(***************************************************************************)
(* Properties of the performance report.                                   *)
(***************************************************************************)
\* the number of entries the specification gives each period
SampleCount(period) ==
  CASE period = "1d" -> 24
    [] period = "1w" -> 7
    [] period = "1m" -> 30
    [] period = "3m" -> 90
    [] period = "1y" -> 365

\* C25: for each period of 1d, 1w, 1m, 3m, 1y the report has 24, 7, 30, 90,
\* 365 historical values in ascending date order, and the value of the last
\* one is the portfolio's current total value, the reported currentValue.
C25_Claim ==
  performance.period \in {"1d", "1w", "1m", "3m", "1y"} =>
    LET history == performance.historicalValues
    IN /\ Len(history) = SampleCount(performance.period)
       /\ \A j \in 1..(Len(history) - 1) : history[j].date < history[j + 1].date
       /\ SameFrac(history[Len(history)].value, performance.currentValue)

(***************************************************************************)
(* Further properties of the ledger.                                       *)
(***************************************************************************)
\* |v| for a number
AbsV(v) == Rat(Abs(ToNumber(v).n), ToNumber(v).d)

\* the price after differs from the price before by at most 2 percent of it
WithinTwoPercent(before, after) ==
  Le(AbsV(Add(after, Mul(NumV(-1), before))), Mul(Rat(2, 100), AbsV(before)))

\* C26: updatePortfolio changes the currentPrice of each held position by at
\* most 2 percent of its previous value and leaves cash, the held symbols,
\* every quantity and costBasis, and the transaction log unchanged.
C26_Claim ==
  [][ (lastResult'.op = "updatePortfolio" /\ refreshes' = refreshes + 1) =>
        /\ cash' = cash
        /\ transactions' = transactions
        /\ Len(positions') = Len(positions)
        /\ \A i \in 1..Len(positions) :
             /\ positions'[i].symbol = positions[i].symbol
             /\ positions'[i].quantity = positions[i].quantity
             /\ positions'[i].costBasis = positions[i].costBasis
             /\ WithinTwoPercent(positions[i].currentPrice,
                                 positions'[i].currentPrice) ]_vars

\* the sum of quantity (field = "quantity") or value (field = "value") over
\* the first count logged transactions of the given action, and of the given
\* symbol unless it is "any"
RECURSIVE Logged(_, _, _, _, _)
Logged(txs, count, field, action, symbol) ==
  IF count = 0 THEN 0
  ELSE Logged(txs, count - 1, field, action, symbol)
       + (IF txs[count].action = action /\ symbol \in {"any", txs[count].symbol}
            THEN (IF field = "quantity" THEN txs[count].quantity ELSE txs[count].value)
          ELSE 0)

\* the quantity held of a symbol, 0 when there is no position
Held(ps, symbol) ==
  IF FindPosition(ps, symbol) = 0 THEN 0 ELSE ps[FindPosition(ps, symbol)].quantity

\* C27: in every reachable state, for each symbol the held quantity is the
\* sum of the logged buys minus the sum of the logged sells of that symbol,
\* with no position when that difference is 0, and cash is 100000 minus the
\* values of the logged buys plus the values of the logged sells.
C27_Claim ==
  LET n == Len(transactions)
      symbols == {transactions[i].symbol : i \in 1..n}
                   \cup {positions[i].symbol : i \in 1..Len(positions)}
  IN /\ \A s \in symbols :
          LET net == Logged(transactions, n, "quantity", "buy", s)
                       - Logged(transactions, n, "quantity", "sell", s)
          IN /\ Held(positions, s) = net
             /\ net = 0 => FindPosition(positions, s) = 0
     /\ cash = InitialCash - Logged(transactions, n, "value", "buy", "any")
                 + Logged(transactions, n, "value", "sell", "any")

(***************************************************************************)
(* Further properties of the recommendation.                               *)
(***************************************************************************)
\* C28: a successful analysis never recommends hold: the MACD step replaces
\* the hold the moving-average step may leave, so the RSI step never meets
\* a hold, whatever the signals.
C28_Theorem ==
  /\ \A alignment \in Alignments, macdSignal \in MacdSignals :
       MacdStep(MovingAverageStep(StartRecommendation, alignment), macdSignal).action
         \in {"buy", "sell"}
  /\ \A alignment \in Alignments, macdSignal \in MacdSignals, rsiSignal \in RsiSignals :
       Recommend(alignment, macdSignal, rsiSignal).action \in {"buy", "sell"}
  /\ analysis.status = "success" => analysis.recommendation.action \in {"buy", "sell"}

\* an analysis has been returned for a series whose price is not on one
\* side of both averages: the moving-average step left the hold
C28_Witness ==
  /\ analysis.status = "success"
  /\ StockAlignment = "mixed"
  /\ StepOf(analysis.recommendation.reasons[1]) = 2

(***************************************************************************)
(* Further properties of executeOrder.                                     *)
(***************************************************************************)
\* the limit orders with a positive limit price
PositiveLimitOrders == {o \in Orders : o.type = "limit" /\ Gt(o.price, NumV(0))}

\* C29: a limit order with a positive limit price passed to executeOrder
\* never returns pending, whatever Math.random() would draw: it goes on to
\* the position and funds checks, and when it is logged it is logged at
\* exactly its limit price.
C29_Theorem ==
  \A o \in PositiveLimitOrders, rnd \in RandomPrices, elapsed \in Elapsed :
    LET res == executeOrder(Portfolio, o, rnd, DateNow(transactions, elapsed))
        log == res.pf.transactions
    IN /\ res.status \in {"executed", "error"}
       /\ res.pf # Portfolio =>
            /\ Len(log) = Len(transactions) + 1
            /\ log[Len(log)].price = o.price
            /\ log[Len(log)].value = o.quantity.n * ToNumber(o.price).n

\* a position is held and a limit sell of it above the price it was bought
\* at is executed at its limit price
C29_Witness ==
  /\ Len(positions) = 1
  /\ lastResult.status = "executed"
  /\ \E o \in PositiveLimitOrders :
       LET res == executeOrder(Portfolio, o, 100, DateNow(transactions, 1))
       IN /\ o.action = "sell"
          /\ Gt(o.price, positions[1].currentPrice)
          /\ res.status = "executed"
          /\ res.pf.transactions[Len(res.pf.transactions)].price = o.price

\* C30: every transaction in the log has an id different from the id of
\* every other transaction in the log, also when orders are executed within
\* the same millisecond of the clock that supplies the id.
C30_Claim ==
  \A i, j \in 1..Len(transactions) :
    i # j => transactions[i].id # transactions[j].id

====
